---- MODULE Spec2Model ----
(***************************************************************************)
(* Pseudo-serial port over SWD, target side (swd-comm driver):             *)
(* two ring buffers uart_rx / uart_tx, the byte counters, the DCRDR        *)
(* register and the host generated interrupt.  The host is the            *)
(* environment: it writes uart_rx slots and uart_rx.head and advances      *)
(* uart_tx.tail through the debug port.                                    *)
(***************************************************************************)
EXTENDS Integers, Sequences, FiniteSets, TLC

\* ---------------------------------------------------------------- sizes
\* Ring sizes, scaled down from the 16 and 128 of the driver.
SERIAL_RXBUF_SIZE == 3
SERIAL_TXBUF_SIZE == 3
\* Number of interrupts the host raises in one run.
MaxIntr == 2
\* Number of interrupts in a run of the handler alone.
MaxFirings == 258

\* 0xDB196500.  A 32 bit word is kept as its upper 24 bits and its low byte.
STLINK_PSEUDO_MAGIC == [hi |-> 14358885, lo |-> 0]

\* Arguments passed to serial_putchar and slot bytes written by the host.
TxArgs == {0, 65}
RxBytes == {128, 255}

RxIdx == 0 .. (SERIAL_RXBUF_SIZE - 1)
TxIdx == 0 .. (SERIAL_TXBUF_SIZE - 1)

VARIABLES uart_rx, uart_tx, serial_txbytes, serial_rxbytes, DCRDR,
          intr_count, intr_ena, GPIOC_ODR,
          cpu,
          last, txq, rxq, hostesc, phase, poked, nsetup

vars == <<uart_rx, uart_tx, serial_txbytes, serial_rxbytes, DCRDR,
          intr_count, intr_ena, GPIOC_ODR, cpu,
          last, txq, rxq, hostesc, phase, poked, nsetup>>

\* cpu holds the position and the locals of a call of serial_putchar or
\* serial_getchar that is run one memory access at a time (tpc, i, j, c) and
\* those of the host's pop or push run the same way (hpc, hb, hgot).

\* History variables, written by no line of the driver:
\*   last     the call or host step just made, its argument and its result
\*   txq      bytes accepted by serial_putchar and not yet popped by the host
\*   rxq      slot bytes pushed by the host and not yet read, each with its
\*            role in the zero-escape encoding ("lit", "esc" or "cnt")
\*   hostesc  the host has pushed an escape byte and owes its count
\*   phase    progress of the fill / refuse / pop / accept scenario
\*   poked    bytes the host wrote into slots without moving an index
\*   nsetup   serial_setup calls made in a row (at most 2 are counted)

\* The memory of the driver: what a caller or the host can observe.
mem == <<uart_rx, uart_tx, serial_txbytes, serial_rxbytes, DCRDR>>

\* ------------------------------------------------------------ C helpers
\* q_index is an unsigned char.
q_index(x) == x % 256

\* A value stored in an unsigned char slot.
ToUChar(c) == c % 256

\* The unsigned char local c of serial_getchar returned as an int.
UCharAsSigned(c) == IF c % 256 >= 128 THEN (c % 256) - 256 ELSE c % 256
UCharToInt(c) == c % 256

\* "if (i >= sizeof(buf)) i = 0;"
WrapOffByOne(i, size) == IF i > size THEN 0 ELSE i
WrapIndex(i, size) == IF i >= size THEN 0 ELSE i

\* The queue-full test of serial_putchar, "if (i == j)".
FullWhenEmpty(i, j, head) == head = j
FullWhenNotBelow(i, j, head) == i >= j
TxFull(i, j, head) == i = j

\* The queue-empty test of serial_getchar, "if (i != j)".
RxNonEmpty(i, j) == i # j

\* The slot read by serial_getchar, "c = uart_rx.buf[i++]": i is the tail,
\* inext the tail after the increment.
ReadSlotNext(i, inext) == WrapIndex(inext, SERIAL_RXBUF_SIZE)
ReadSlot(i, inext) == i

\* The index serial_getchar publishes, "uart_rx.tail = i".
StoreHead(q, v) == [q EXCEPT !.head = v]
StoreTail(q, v) == [q EXCEPT !.tail = v]

\* The slot written by serial_putchar, "uart_tx.buf[uart_tx.head] = c": head
\* is the old head, i the new one.
StoreSlotNew(head, i) == i
StoreSlot(head, i) == head

\* 32 bit unsigned sum of the word w and the int n >= 0.
Add32(w, n) == [hi |-> (w.hi + ((w.lo + n) \div 256)) % 16777216,
                lo |-> (w.lo + n) % 256]

\* TOGGLE_LED: bits 8 and 9 of port C.
ToggleLed(odr) == IF odr = 0 THEN 768 ELSE 0

Op(name, arg, ret) == [op |-> name, arg |-> arg, ret |-> ret]

\* No call in progress on the target, no transfer in progress on the host.
CpuIdle == [tpc |-> "idle", i |-> 0, j |-> 0, c |-> 0,
            hpc |-> "idle", hb |-> 0, hgot |-> 0]

\* ----------------------------------------------------------------- Init
\* The globals are zero initialised; the interrupt is not yet enabled.
Init ==
    /\ uart_rx = [head |-> 0, tail |-> 0, buf |-> [k \in RxIdx |-> 0]]
    /\ uart_tx = [head |-> 0, tail |-> 0, buf |-> [k \in TxIdx |-> 0]]
    /\ serial_txbytes = 0
    /\ serial_rxbytes = 0
    /\ DCRDR = [hi |-> 0, lo |-> 0]
    /\ intr_count = 0
    /\ intr_ena = FALSE
    /\ GPIOC_ODR = 0
    /\ cpu = CpuIdle
    /\ last = Op("init", 0, 0)
    /\ txq = <<>>
    /\ rxq = <<>>
    /\ hostesc = FALSE
    /\ phase = -1
    /\ poked = <<>>
    /\ nsetup = 0

\* ------------------------------------------------------- target actions
\* int serial_getchar(void)
serial_getchar ==
    LET i == uart_rx.tail
        j == uart_rx.head
        inext == q_index(i + 1)
    IN  /\ IF RxNonEmpty(i, j)
           THEN /\ uart_rx' = StoreTail(uart_rx,
                                 WrapIndex(inext, SERIAL_RXBUF_SIZE))
                /\ last' = Op("getchar", 0,
                       UCharToInt(uart_rx.buf[ReadSlot(i, inext)]))
           ELSE /\ uart_rx' = uart_rx
                /\ last' = Op("getchar", 0, -1)
        /\ rxq' = IF rxq # <<>> THEN Tail(rxq) ELSE rxq
        /\ poked' = IF poked # <<>> THEN Tail(poked) ELSE poked
        /\ phase' = -1
        /\ nsetup' = 0
        /\ UNCHANGED <<cpu, uart_tx, serial_txbytes, serial_rxbytes, DCRDR,
                       intr_count, intr_ena, GPIOC_ODR, txq, hostesc>>

\* The scenario counter of the transmit queue: k accepted calls in a row
\* since serial_setup (0 .. SIZE-1), then the refused call (SIZE), then the
\* host's pop (SIZE+1), then the accepted call (SIZE+2); -1 elsewhere.
NextPhase(r) ==
    IF phase \in 0 .. (SERIAL_TXBUF_SIZE - 2) /\ r = 0 THEN phase + 1
    ELSE IF phase = SERIAL_TXBUF_SIZE - 1 /\ r = -1 THEN SERIAL_TXBUF_SIZE
    ELSE IF phase = SERIAL_TXBUF_SIZE + 1 /\ r = 0 THEN SERIAL_TXBUF_SIZE + 2
    ELSE -1

\* char serial_putchar(char c)
serial_putchar(c) ==
    LET i == WrapIndex(q_index(uart_tx.head + 1), SERIAL_TXBUF_SIZE)
        j == uart_tx.tail
    IN  /\ IF TxFull(i, j, uart_tx.head)
           THEN /\ uart_tx' = uart_tx
                /\ last' = Op("putchar", c, -1)
                /\ txq' = txq
                /\ phase' = NextPhase(-1)
           ELSE /\ uart_tx' = [uart_tx EXCEPT
                       !.buf[StoreSlot(uart_tx.head, i)] = ToUChar(c),
                       !.head = i]
                /\ last' = Op("putchar", c, 0)
                /\ txq' = Append(txq, ToUChar(c))
                /\ phase' = NextPhase(0)
        /\ nsetup' = 0
        /\ UNCHANGED <<cpu, uart_rx, serial_txbytes, serial_rxbytes, DCRDR,
                       intr_count, intr_ena, GPIOC_ODR, rxq, hostesc, poked>>

\* The word serial_setup stores in the DCRDR, "DCRDR = STLINK_PSEUDO_MAGIC";
\* old is the register before the store.
SetupAddMagic(old) == [hi |-> (old.hi + STLINK_PSEUDO_MAGIC.hi) % 16777216,
                       lo |-> (old.lo + STLINK_PSEUDO_MAGIC.lo) % 256]
SetupMagic(old) == STLINK_PSEUDO_MAGIC

\* void serial_setup(void)
serial_setup ==
    /\ serial_txbytes' = 0
    /\ serial_rxbytes' = 0
    /\ uart_rx' = [uart_rx EXCEPT !.head = 0, !.tail = 0]
    /\ uart_tx' = [uart_tx EXCEPT !.head = 0, !.tail = 0]
    /\ DCRDR' = SetupMagic(DCRDR)
    /\ intr_ena' = TRUE
    /\ last' = Op("setup", 0, 0)
    /\ txq' = <<>>
    /\ rxq' = <<>>
    /\ hostesc' = FALSE
    /\ phase' = 0
    /\ poked' = <<>>
    /\ nsetup' = IF nsetup = 0 THEN 1 ELSE 2
    /\ UNCHANGED <<cpu, intr_count, GPIOC_ODR>>

\* ISREVAL(PSEUDO_SERIAL_VECTOR): the host generated interrupt.
PSEUDO_SERIAL_IntrCounts ==
    /\ intr_ena
    /\ intr_count < MaxIntr
    /\ GPIOC_ODR' = ToggleLed(GPIOC_ODR)
    /\ DCRDR' = Add32(STLINK_PSEUDO_MAGIC, intr_count)
    /\ intr_count' = intr_count + 1
    /\ serial_rxbytes' = serial_rxbytes + 1
    /\ last' = Op("intr", 0, 0)
    /\ phase' = -1
    /\ poked' = <<>>
    /\ nsetup' = 0
    /\ UNCHANGED <<cpu, uart_rx, uart_tx, serial_txbytes,
                   intr_ena, txq, rxq, hostesc>>
PSEUDO_SERIAL_Intr ==
    /\ intr_ena
    /\ intr_count < MaxIntr
    /\ GPIOC_ODR' = ToggleLed(GPIOC_ODR)
    /\ DCRDR' = Add32(STLINK_PSEUDO_MAGIC, intr_count)
    /\ intr_count' = intr_count + 1
    /\ last' = Op("intr", 0, 0)
    /\ phase' = -1
    /\ poked' = <<>>
    /\ nsetup' = 0
    /\ UNCHANGED <<cpu, uart_rx, uart_tx, serial_txbytes, serial_rxbytes,
                   intr_ena, txq, rxq, hostesc>>

\* --------------------------------------------------------- host actions
\* The host has recognised the magic number in the DCRDR.
HostSeesMagic == DCRDR.hi = STLINK_PSEUDO_MAGIC.hi

\* The role of the slot byte b in the host's zero-escape encoding.
SlotKind(b) == IF hostesc THEN "cnt" ELSE IF b = 128 THEN "esc" ELSE "lit"

\* The host pushes one non-zero slot byte on the host-to-target ring.
HostPush(b) ==
    LET i == WrapIndex(q_index(uart_rx.head + 1), SERIAL_RXBUF_SIZE)
    IN  /\ HostSeesMagic
        /\ i # uart_rx.tail
        /\ uart_rx' = [uart_rx EXCEPT !.buf[uart_rx.head] = b, !.head = i]
        /\ rxq' = Append(rxq, [b |-> b, kind |-> SlotKind(b)])
        /\ hostesc' = (SlotKind(b) = "esc")
        /\ last' = Op("hostpush", b, 0)
        /\ phase' = -1
        /\ poked' = <<>>
        /\ nsetup' = 0
        /\ UNCHANGED <<cpu, uart_tx, serial_txbytes, serial_rxbytes, DCRDR,
                       intr_count, intr_ena, GPIOC_ODR, txq>>

\* Right after serial_setup the host writes one non-zero byte into the next
\* slot from the target's tail and writes nothing else: no index, no
\* register, no interrupt.
HostPoke(b) ==
    /\ HostSeesMagic
    /\ last.op \in {"setup", "hostpoke"}
    /\ Len(poked) < SERIAL_RXBUF_SIZE - 1
    /\ uart_rx' = [uart_rx EXCEPT
            !.buf[(uart_rx.tail + Len(poked)) % SERIAL_RXBUF_SIZE] = b]
    /\ poked' = Append(poked, b)
    /\ last' = Op("hostpoke", b, 0)
    /\ phase' = -1
    /\ nsetup' = 0
    /\ UNCHANGED <<cpu, uart_tx, serial_txbytes, serial_rxbytes, DCRDR,
                   intr_count, intr_ena, GPIOC_ODR, txq, rxq, hostesc>>

\* The host pops one slot of the target-to-host ring.
HostPop ==
    LET i == uart_tx.tail
    IN  /\ HostSeesMagic
        /\ uart_tx.head # i
        /\ uart_tx' = [uart_tx EXCEPT
                !.buf[i] = 0,
                !.tail = WrapIndex(q_index(i + 1), SERIAL_TXBUF_SIZE)]
        /\ last' = Op("hostpop", 0, uart_tx.buf[i])
        /\ txq' = IF txq # <<>> THEN Tail(txq) ELSE txq
        /\ phase' = IF phase = SERIAL_TXBUF_SIZE
                    THEN SERIAL_TXBUF_SIZE + 1 ELSE -1
        /\ poked' = <<>>
        /\ nsetup' = 0
        /\ UNCHANGED <<cpu, uart_rx, serial_txbytes, serial_rxbytes, DCRDR,
                       intr_count, intr_ena, GPIOC_ODR, rxq, hostesc>>

\* ------------------------------------------------------- specifications
Next ==
    \/ serial_getchar
    \/ \E c \in TxArgs : serial_putchar(c)
    \/ serial_setup
    \/ PSEUDO_SERIAL_Intr
    \/ \E b \in RxBytes : HostPush(b)
    \/ \E b \in RxBytes : HostPoke(b)
    \/ HostPop

Spec == Init /\ [][Next]_vars

\* ------------------------------------------ the handler over a long run
\* ISREVAL(PSEUDO_SERIAL_VECTOR), fired up to MaxFirings times.
PSEUDO_SERIAL_IntrRun ==
    /\ intr_ena
    /\ intr_count < MaxFirings
    /\ GPIOC_ODR' = ToggleLed(GPIOC_ODR)
    /\ DCRDR' = Add32(STLINK_PSEUDO_MAGIC, intr_count)
    /\ intr_count' = intr_count + 1
    /\ last' = Op("intr", 0, 0)
    /\ phase' = -1
    /\ poked' = <<>>
    /\ nsetup' = 0
    /\ UNCHANGED <<cpu, uart_rx, uart_tx, serial_txbytes, serial_rxbytes,
                   intr_ena, txq, rxq, hostesc>>

NextIntr ==
    \/ serial_setup
    \/ PSEUDO_SERIAL_IntrRun

SpecIntr == Init /\ [][NextIntr]_vars

\* ------------------------------------- one memory access at a time: Tx
\* The state serial_setup leaves when called on the initial state.
InitReady ==
    /\ uart_rx = [head |-> 0, tail |-> 0, buf |-> [k \in RxIdx |-> 0]]
    /\ uart_tx = [head |-> 0, tail |-> 0, buf |-> [k \in TxIdx |-> 0]]
    /\ serial_txbytes = 0
    /\ serial_rxbytes = 0
    /\ DCRDR = STLINK_PSEUDO_MAGIC
    /\ intr_count = 0
    /\ intr_ena = TRUE
    /\ GPIOC_ODR = 0
    /\ cpu = CpuIdle
    /\ last = Op("setup", 0, 0)
    /\ txq = <<>>
    /\ rxq = <<>>
    /\ hostesc = FALSE
    /\ phase = 0
    /\ poked = <<>>
    /\ nsetup = 1

\* The two stores of serial_putchar in program order:
\* "uart_tx.buf[uart_tx.head] = c;" then "uart_tx.head = i;".
PutOrderHeadFirst == <<"p_head", "p_slot">>
PutOrder == <<"p_slot", "p_head">>

\* Where serial_putchar goes after the store at position pc.
AfterPut(pc) == IF pc = PutOrder[1] THEN PutOrder[2] ELSE "idle"

\* What the steps on the transmit ring leave alone.
TxStepFrame ==
    UNCHANGED <<uart_rx, serial_txbytes, serial_rxbytes, DCRDR, intr_count,
                intr_ena, GPIOC_ODR, rxq, hostesc, phase, poked, nsetup>>

\* "i = uart_tx.head + 1; if (i >= sizeof(uart_tx.buf)) i = 0;"
putchar_read_head(c) ==
    /\ cpu.tpc = "idle"
    /\ cpu' = [cpu EXCEPT !.tpc = "p_tail", !.c = c,
                   !.i = WrapIndex(q_index(uart_tx.head + 1), SERIAL_TXBUF_SIZE)]
    /\ UNCHANGED <<uart_tx, last, txq>>
    /\ TxStepFrame

\* "j = uart_tx.tail; if (i == j) return -1;"
putchar_read_tail ==
    /\ cpu.tpc = "p_tail"
    /\ IF TxFull(cpu.i, uart_tx.tail, uart_tx.head)
       THEN /\ cpu' = [cpu EXCEPT !.tpc = "idle", !.j = uart_tx.tail]
            /\ last' = Op("putchar", cpu.c, -1)
       ELSE /\ cpu' = [cpu EXCEPT !.tpc = PutOrder[1], !.j = uart_tx.tail]
            /\ last' = last
    /\ UNCHANGED <<uart_tx, txq>>
    /\ TxStepFrame

\* "uart_tx.buf[uart_tx.head] = c;"
putchar_store_slot ==
    /\ cpu.tpc = "p_slot"
    /\ uart_tx' = [uart_tx EXCEPT
            !.buf[StoreSlot(uart_tx.head, cpu.i)] = ToUChar(cpu.c)]
    /\ cpu' = [cpu EXCEPT !.tpc = AfterPut("p_slot")]
    /\ last' = IF AfterPut("p_slot") = "idle"
               THEN Op("putchar", cpu.c, 0) ELSE last
    /\ txq' = txq
    /\ TxStepFrame

\* "uart_tx.head = i; return 0;"
putchar_store_head ==
    /\ cpu.tpc = "p_head"
    /\ uart_tx' = [uart_tx EXCEPT !.head = cpu.i]
    /\ cpu' = [cpu EXCEPT !.tpc = AfterPut("p_head")]
    /\ last' = IF AfterPut("p_head") = "idle"
               THEN Op("putchar", cpu.c, 0) ELSE last
    /\ txq' = Append(txq, ToUChar(cpu.c))
    /\ TxStepFrame

\* The host reads uart_tx.head and goes on only if it differs from the tail.
host_pop_read_head ==
    /\ cpu.hpc = "idle"
    /\ HostSeesMagic
    /\ uart_tx.head # uart_tx.tail
    /\ cpu' = [cpu EXCEPT !.hpc = "h_slot"]
    /\ UNCHANGED <<uart_tx, last, txq>>
    /\ TxStepFrame

\* The host reads buf[tail].
host_pop_read_slot ==
    /\ cpu.hpc = "h_slot"
    /\ cpu' = [cpu EXCEPT !.hpc = "h_clear", !.hgot = uart_tx.buf[uart_tx.tail]]
    /\ UNCHANGED <<uart_tx, last, txq>>
    /\ TxStepFrame

\* The host clears the slot it has read.
host_pop_clear_slot ==
    /\ cpu.hpc = "h_clear"
    /\ uart_tx' = [uart_tx EXCEPT !.buf[uart_tx.tail] = 0]
    /\ cpu' = [cpu EXCEPT !.hpc = "h_tail"]
    /\ UNCHANGED <<last, txq>>
    /\ TxStepFrame

\* The host advances uart_tx.tail.
host_pop_store_tail ==
    /\ cpu.hpc = "h_tail"
    /\ uart_tx' = [uart_tx EXCEPT
            !.tail = WrapIndex(q_index(uart_tx.tail + 1), SERIAL_TXBUF_SIZE)]
    /\ cpu' = [cpu EXCEPT !.hpc = "idle"]
    /\ last' = Op("hostpop", 0, cpu.hgot)
    /\ txq' = IF txq # <<>> THEN Tail(txq) ELSE txq
    /\ TxStepFrame

NextTxSteps ==
    \/ \E c \in TxArgs : putchar_read_head(c)
    \/ putchar_read_tail
    \/ putchar_store_slot
    \/ putchar_store_head
    \/ host_pop_read_head
    \/ host_pop_read_slot
    \/ host_pop_clear_slot
    \/ host_pop_store_tail

SpecTxSteps == InitReady /\ [][NextTxSteps]_vars

\* ------------------------------------- one memory access at a time: Rx
\* What the steps on the receive ring leave alone.
RxStepFrame ==
    UNCHANGED <<uart_tx, serial_txbytes, serial_rxbytes, DCRDR, intr_count,
                intr_ena, GPIOC_ODR, txq, phase, poked, nsetup>>

\* "i = uart_rx.tail;"
getchar_read_tail ==
    /\ cpu.tpc = "idle"
    /\ cpu' = [cpu EXCEPT !.tpc = "g_head", !.i = uart_rx.tail]
    /\ UNCHANGED <<uart_rx, last, rxq, hostesc>>
    /\ RxStepFrame

\* "j = uart_rx.head; if (i != j) ... return -1;"
getchar_read_head ==
    /\ cpu.tpc = "g_head"
    /\ IF RxNonEmpty(cpu.i, uart_rx.head)
       THEN /\ cpu' = [cpu EXCEPT !.tpc = "g_slot", !.j = uart_rx.head]
            /\ last' = last
       ELSE /\ cpu' = [cpu EXCEPT !.tpc = "idle", !.j = uart_rx.head]
            /\ last' = Op("getchar", 0, -1)
    /\ UNCHANGED <<uart_rx, rxq, hostesc>>
    /\ RxStepFrame

\* "c = uart_rx.buf[i++];"
getchar_read_slot ==
    /\ cpu.tpc = "g_slot"
    /\ cpu' = [cpu EXCEPT !.tpc = "g_tail",
                   !.c = uart_rx.buf[ReadSlot(cpu.i, q_index(cpu.i + 1))]]
    /\ UNCHANGED <<uart_rx, last, rxq, hostesc>>
    /\ RxStepFrame

\* "if (i >= sizeof(uart_rx.buf)) i = 0; uart_rx.tail = i; return c;"
getchar_store_tail ==
    /\ cpu.tpc = "g_tail"
    /\ uart_rx' = StoreTail(uart_rx,
                      WrapIndex(q_index(cpu.i + 1), SERIAL_RXBUF_SIZE))
    /\ cpu' = [cpu EXCEPT !.tpc = "idle"]
    /\ last' = Op("getchar", 0, UCharToInt(cpu.c))
    /\ rxq' = IF rxq # <<>> THEN Tail(rxq) ELSE rxq
    /\ hostesc' = hostesc
    /\ RxStepFrame

\* The host reads uart_rx.tail and goes on only if head + 1 differs from it.
host_push_read_tail(b) ==
    /\ cpu.hpc = "idle"
    /\ HostSeesMagic
    /\ WrapIndex(q_index(uart_rx.head + 1), SERIAL_RXBUF_SIZE) # uart_rx.tail
    /\ cpu' = [cpu EXCEPT !.hpc = "hp_slot", !.hb = b]
    /\ UNCHANGED <<uart_rx, last, rxq, hostesc>>
    /\ RxStepFrame

\* The host writes the slot at the head.
host_push_store_slot ==
    /\ cpu.hpc = "hp_slot"
    /\ uart_rx' = [uart_rx EXCEPT !.buf[uart_rx.head] = cpu.hb]
    /\ cpu' = [cpu EXCEPT !.hpc = "hp_head"]
    /\ UNCHANGED <<last, rxq, hostesc>>
    /\ RxStepFrame

\* The host advances uart_rx.head.
host_push_store_head ==
    /\ cpu.hpc = "hp_head"
    /\ uart_rx' = [uart_rx EXCEPT
            !.head = WrapIndex(q_index(uart_rx.head + 1), SERIAL_RXBUF_SIZE)]
    /\ cpu' = [cpu EXCEPT !.hpc = "idle"]
    /\ last' = Op("hostpush", cpu.hb, 0)
    /\ rxq' = Append(rxq, [b |-> cpu.hb, kind |-> SlotKind(cpu.hb)])
    /\ hostesc' = (SlotKind(cpu.hb) = "esc")
    /\ RxStepFrame

NextRxSteps ==
    \/ getchar_read_tail
    \/ getchar_read_head
    \/ getchar_read_slot
    \/ getchar_store_tail
    \/ \E b \in RxBytes : host_push_read_tail(b)
    \/ host_push_store_slot
    \/ host_push_store_head

SpecRxSteps == InitReady /\ [][NextRxSteps]_vars

\* --------------------------------------- a writer that retries for ever
\* serial_putchar is called again and again and the host keeps popping
\* whenever the ring is not empty; the host may raise its interrupt at any
\* time; serial_setup is not called again.
NextLive ==
    \/ \E c \in TxArgs : serial_putchar(c)
    \/ HostPop
    \/ PSEUDO_SERIAL_Intr

SpecLive ==
    /\ InitReady
    /\ [][NextLive]_vars
    /\ WF_vars(\E c \in TxArgs : serial_putchar(c))
    /\ WF_vars(HostPop)

\* ------------------------------------------------------------ properties
\* Slots of a ring of the given size from tail up to but excluding head.
Occupied(k, q, size) == (k - q.tail + size) % size < (q.head - q.tail + size) % size

\* C1: FIFO order.  On either ring a pop yields the oldest byte pushed and
\* not yet popped: the host's pop of uart_tx yields the oldest byte accepted
\* by serial_putchar, serial_getchar yields the oldest slot byte pushed by
\* the host; a pop finds the ring empty exactly when every pushed byte has
\* been popped, so no byte is lost, duplicated or reordered.
FifoOrder ==
    [][ /\ (txq = <<>>) <=> (uart_tx.head = uart_tx.tail)
        /\ (rxq = <<>>) <=> (uart_rx.head = uart_rx.tail)
        /\ last'.op = "hostpop" => (txq # <<>> /\ last'.ret = Head(txq))
        /\ last'.op = "getchar" =>
              IF rxq = <<>> THEN last'.ret = -1
              ELSE last'.ret = Head(rxq).b ]_vars

\* Pushes and pops have interleaved on both rings and the transmit ring has
\* wrapped around.
FifoWitness ==
    /\ last.op = "hostpop" /\ last.ret = 65
    /\ txq # <<>> /\ uart_tx.head < uart_tx.tail
    /\ rxq # <<>> /\ uart_rx.head < uart_rx.tail

\* C2: full/empty boundary.  From the empty transmit queue left by
\* serial_setup the first SERIAL_TXBUF_SIZE - 1 calls of serial_putchar in a
\* row return 0, the next returns -1, the host can then pop a slot, and the
\* call after that pop returns 0.
BackpressureBoundary ==
    [][ /\ phase = SERIAL_TXBUF_SIZE => uart_tx.head # uart_tx.tail
        /\ last'.op = "putchar" =>
              /\ phase \in 0 .. (SERIAL_TXBUF_SIZE - 2) => last'.ret = 0
              /\ phase = SERIAL_TXBUF_SIZE - 1 => last'.ret = -1
              /\ phase = SERIAL_TXBUF_SIZE + 1 => last'.ret = 0 ]_vars

\* The whole scenario has run: fill, refusal, one pop, acceptance.
BackpressureWitness ==
    phase = SERIAL_TXBUF_SIZE + 2 /\ last.op = "putchar" /\ last.ret = 0

\* C3: serial_putchar(c) returns -1 exactly when (head + 1) mod size = tail
\* and then changes nothing of uart_tx; otherwise it returns 0, stores c at
\* the old head, advances head by one modulo the size and leaves tail and
\* the other slots alone.
PutcharContract ==
    [][ last'.op = "putchar" =>
          LET full == (uart_tx.head + 1) % SERIAL_TXBUF_SIZE = uart_tx.tail
          IN  /\ last'.ret \in {0, -1}
              /\ (last'.ret = -1) <=> full
              /\ full => uart_tx' = uart_tx
              /\ ~full =>
                   /\ uart_tx'.buf[uart_tx.head] = last'.arg
                   /\ uart_tx'.head = (uart_tx.head + 1) % SERIAL_TXBUF_SIZE
                   /\ uart_tx'.tail = uart_tx.tail
                   /\ \A k \in TxIdx \ {uart_tx.head} :
                          uart_tx'.buf[k] = uart_tx.buf[k] ]_vars

\* A call was refused on a queue whose tail is not 0, after an accepted call
\* had wrapped the head.
PutcharWitness ==
    /\ last.op = "putchar" /\ last.ret = -1 /\ uart_tx.tail # 0
    /\ \E k \in TxIdx : uart_tx.buf[k] = 65

\* C4: serial_getchar returns -1 exactly when uart_rx.head = uart_rx.tail
\* and then changes nothing of uart_rx; the call is always possible, an
\* empty queue is a return value.
GetcharEmpty ==
    [][ /\ ENABLED serial_getchar
        /\ last'.op = "getchar" =>
              /\ (last'.ret = -1) <=> (uart_rx.head = uart_rx.tail)
              /\ uart_rx.head = uart_rx.tail => uart_rx' = uart_rx ]_vars

\* An empty read after the queue was used, with the byte 0xFF among the
\* slots that were delivered.
GetcharEmptyWitness ==
    /\ last.op = "getchar" /\ last.ret = -1
    /\ uart_rx.head = uart_rx.tail /\ uart_rx.tail # 0
    /\ \E k \in RxIdx : uart_rx.buf[k] = 255

\* C5: every successful serial_getchar clears the slot it consumed to 0x00
\* and advances uart_rx.tail by one modulo the size.
GetcharClearsSlot ==
    [][ (last'.op = "getchar" /\ last'.ret # -1) =>
          /\ uart_rx'.buf[uart_rx.tail] = 0
          /\ uart_rx'.tail = (uart_rx.tail + 1) % SERIAL_RXBUF_SIZE ]_vars

\* C6: after serial_setup every slot of both rings holds 0x00, the four
\* indices are 0 and the DCRDR holds STLINK_PSEUDO_MAGIC.
SetupZeroFills ==
    last.op = "setup" =>
        /\ \A k \in RxIdx : uart_rx.buf[k] = 0
        /\ \A k \in TxIdx : uart_tx.buf[k] = 0
        /\ uart_rx.head = 0 /\ uart_rx.tail = 0
        /\ uart_tx.head = 0 /\ uart_tx.tail = 0
        /\ DCRDR = STLINK_PSEUDO_MAGIC

\* C7: serial_setup is idempotent: a second call in a row leaves both rings,
\* both byte counters and the DCRDR as the first call left them.
SetupIdempotent ==
    [][ nsetup' = 2 => mem' = mem ]_vars

\* Two calls in a row, made after the rings were used and the interrupt
\* had moved the DCRDR.
SetupIdempotentWitness ==
    /\ nsetup = 2 /\ intr_count > 0
    /\ \E k \in TxIdx : uart_tx.buf[k] # 0
    /\ \E k \in RxIdx : uart_rx.buf[k] # 0

\* C8: serial_getchar delivers the decoded stream: with the escape byte 0x80
\* and its count k >= 1 at the front of the host-to-target ring the call
\* returns the byte 0, not the raw 0x80.
GetcharDecodes ==
    [][ ( /\ last'.op = "getchar"
          /\ Len(rxq) >= 2
          /\ rxq[1].kind = "esc" /\ rxq[2].kind = "cnt" /\ rxq[2].b >= 1 )
        => last'.ret = 0 ]_vars

\* C9: every occupied slot of uart_tx.buf, from tail up to but excluding
\* head, is non-zero, whatever byte serial_putchar was given.
TxSlotsNonZero ==
    \A k \in TxIdx : Occupied(k, uart_tx, SERIAL_TXBUF_SIZE) => uart_tx.buf[k] # 0

\* C10: the slot contents alone deliver: after serial_setup and n >= 1
\* non-zero bytes written by the host from the tail on, with no index
\* written, the next n calls of serial_getchar return those bytes in order.
SlotOnlyDelivery ==
    [][ (last'.op = "getchar" /\ poked # <<>>) => last'.ret = Head(poked) ]_vars

\* a > b for two 32 bit words.
Gt32(a, b) == a.hi > b.hi \/ (a.hi = b.hi /\ a.lo > b.lo)

\* C11: sequence beacon.  Every firing of the interrupt handler leaves the
\* DCRDR holding a value strictly greater than the one it held before.
BeaconIncreases ==
    [][ last'.op = "intr" => Gt32(DCRDR', DCRDR) ]_vars

\* C12: the interrupt handler leaves head, tail and every slot of both rings
\* and both byte counters as they were.
IntrFrame ==
    [][ last'.op = "intr" =>
          /\ uart_rx' = uart_rx
          /\ uart_tx' = uart_tx
          /\ serial_txbytes' = serial_txbytes
          /\ serial_rxbytes' = serial_rxbytes ]_vars

\* The handler has fired with bytes waiting in both rings.
IntrFrameWitness ==
    /\ last.op = "intr" /\ intr_count = MaxIntr
    /\ txq # <<>> /\ rxq # <<>>

TargetOps == {"getchar", "putchar", "setup", "intr"}

\* C13 as stated: no operation of the target writes uart_rx.head or
\* uart_tx.tail, the indices owned by the host.
TargetNeverWritesHostIndex ==
    [][ last'.op \in TargetOps =>
          /\ uart_rx'.head = uart_rx.head
          /\ uart_tx'.tail = uart_tx.tail ]_vars

\* C13 as amended: serial_getchar, serial_putchar and the interrupt handler
\* never write uart_rx.head or uart_tx.tail; serial_setup is the one target
\* operation that does, and it sets both to 0.
OnlySetupWritesHostIndex ==
    [][ /\ last'.op \in (TargetOps \ {"setup"}) =>
              /\ uart_rx'.head = uart_rx.head
              /\ uart_tx'.tail = uart_tx.tail
        /\ last'.op = "setup" =>
              /\ uart_rx'.head = 0
              /\ uart_tx'.tail = 0 ]_vars

\* serial_getchar has consumed a byte while the host's indices were not 0.
OnlySetupWritesHostIndexWitness ==
    /\ last.op = "getchar" /\ last.ret = 255
    /\ uart_rx.head # 0 /\ uart_tx.tail # 0

\* C14: the byte counters follow the calls: an accepted serial_putchar adds
\* one to serial_txbytes, a successful serial_getchar adds one to
\* serial_rxbytes, serial_setup sets both to 0 and nothing else moves them.
ByteCountersMaintained ==
    [][ /\ serial_txbytes' =
              IF last'.op = "setup" THEN 0
              ELSE IF last'.op = "putchar" /\ last'.ret = 0
                   THEN serial_txbytes + 1 ELSE serial_txbytes
        /\ serial_rxbytes' =
              IF last'.op = "setup" THEN 0
              ELSE IF last'.op = "getchar" /\ last'.ret # -1
                   THEN serial_rxbytes + 1 ELSE serial_rxbytes ]_vars

\* C15: index range.  With a host that writes in-range indices, the four
\* indices stay inside their rings, so the slot serial_getchar reads
\* (buf[tail]) and the slot serial_putchar writes (buf[head]) exist.
IndexRange ==
    /\ uart_rx.head \in RxIdx /\ uart_rx.tail \in RxIdx
    /\ uart_tx.head \in TxIdx /\ uart_tx.tail \in TxIdx
    /\ uart_rx.tail \in DOMAIN uart_rx.buf
    /\ uart_tx.head \in DOMAIN uart_tx.buf

\* Both target-side indices have wrapped from the last slot back to 0.
IndexRangeWitness ==
    /\ last.op = "putchar" /\ last.ret = 0
    /\ uart_tx.head = 0 /\ uart_tx.tail = SERIAL_TXBUF_SIZE - 1
    /\ uart_rx.tail = 0 /\ uart_rx.head = SERIAL_RXBUF_SIZE - 1

\* C19: the empty indicator is unambiguous.  On a non-empty ring
\* serial_getchar returns the slot at the tail as an int in 0 .. 255, so it
\* returns -1 only on the empty ring.
GetcharUnambiguous ==
    [][ last'.op = "getchar" =>
          IF uart_rx.head # uart_rx.tail
          THEN /\ last'.ret = uart_rx.buf[uart_rx.tail]
               /\ last'.ret \in 0 .. 255
          ELSE last'.ret = -1 ]_vars

\* The slot byte 0xFF was delivered, as 255.
GetcharUnambiguousWitness ==
    /\ last.op = "getchar" /\ last.ret = 255
    /\ uart_rx.buf[(uart_rx.tail + SERIAL_RXBUF_SIZE - 1) % SERIAL_RXBUF_SIZE] = 255

\* C16: data before index on the transmit side.  With serial_putchar and
\* the host's pop run one memory access at a time, the slot byte the host
\* reads is the oldest byte whose head serial_putchar has published.
DataBeforeIndex ==
    [][ (cpu.hpc = "h_slot" /\ cpu'.hpc = "h_clear") =>
          (txq # <<>> /\ cpu'.hgot = Head(txq)) ]_vars

\* The host has read the byte 65 after the ring wrapped, while a call of
\* serial_putchar stands between its two stores.
DataBeforeIndexWitness ==
    /\ cpu.hpc = "h_clear" /\ cpu.hgot = 65
    /\ cpu.tpc = "p_head"
    /\ uart_tx.tail > cpu.i

\* C17: read before release on the receive side.  With serial_getchar and
\* the host's push run one memory access at a time, every byte returned is
\* the oldest byte pushed and not yet returned, an empty answer is given
\* only when no pushed byte is waiting, and the bytes waiting are those
\* between tail and head: none is lost or returned twice.
ReadBeforeRelease ==
    [][ /\ Len(rxq) = (uart_rx.head - uart_rx.tail + SERIAL_RXBUF_SIZE)
                          % SERIAL_RXBUF_SIZE
        /\ (cpu.tpc = "g_tail" /\ cpu'.tpc = "idle") =>
              (rxq # <<>> /\ last'.ret = Head(rxq).b)
        /\ (cpu.tpc = "g_head" /\ cpu'.tpc = "idle") => rxq = <<>>
        /\ (cpu.tpc = "g_slot" /\ cpu.hpc = "hp_slot") =>
              uart_rx.head # cpu.i ]_vars

\* serial_getchar has returned 0xFF from a wrapped ring while the host
\* stands between its slot write and its head write.
ReadBeforeReleaseWitness ==
    /\ last.op = "getchar" /\ last.ret = 255
    /\ cpu.tpc = "idle" /\ cpu.hpc = "hp_head"
    /\ uart_rx.head < uart_rx.tail

\* C18: the upper 24 bits of the DCRDR stay those of STLINK_PSEUDO_MAGIC
\* once serial_setup has run, however often the handler fires.
MagicFieldPreserved ==
    intr_ena => DCRDR.hi = STLINK_PSEUDO_MAGIC.hi

\* C20: backpressure is released.  With the writer retrying and a weakly
\* fair host, a refused serial_putchar is always followed, sooner or later,
\* by an accepted one.
BackpressureReleased ==
    (last.op = "putchar" /\ last.ret = -1) ~> (last.op = "putchar" /\ last.ret = 0)

\* A call was accepted after the full ring had refused one and the host
\* had popped a slot.
BackpressureReleasedWitness ==
    /\ phase = SERIAL_TXBUF_SIZE + 2
    /\ last = Op("putchar", 65, 0)
    /\ uart_tx.tail = 1 /\ uart_tx.head = 0

TypeOK ==
    /\ uart_rx.head \in RxIdx /\ uart_rx.tail \in RxIdx
    /\ uart_tx.head \in TxIdx /\ uart_tx.tail \in TxIdx
    /\ \A k \in RxIdx : uart_rx.buf[k] \in 0 .. 255
    /\ \A k \in TxIdx : uart_tx.buf[k] \in 0 .. 255
====
